---------------------------- MODULE Spec2Model ----------------------------
(***************************************************************************)
(* The zopflifying backward-reference selector of                          *)
(* brotli_/enc/backward_references.c: the node array, the start-position   *)
(* queue, the relaxation step UpdateNodes, the two shortest-path drivers,  *)
(* the back-trace, the command emitter and the quality > 9 branch of       *)
(* BrotliCreateBackwardReferences with its allocation-failure exits.       *)
(*                                                                         *)
(* Costs are C floats in the source; the model computes them in exact      *)
(* integer arithmetic (FastLog2 is taken as the floor of the logarithm),   *)
(* with kInfinity a number larger than any cost the bounds can produce.    *)
(***************************************************************************)
EXTENDS Integers, Sequences, FiniteSets, TLC

\* ------------------------------------------------------------------ bounds
\* Largest num_bytes of a meta-block.
MaxBytes == 5
\* Largest block start whose preceding bytes are all pending literals.
MaxPosition == 1
\* Longer meta-blocks are concatenations of at most MaxWords of the Words.
MaxWords == 3
\* Number of pushes explored by the queue-only specification.
MaxPushes == 9
\* The cost differences pushed there are -MaxSaving .. 0.
MaxSaving == 2

\* --------------------------------------------------------- program constants
kMaxZopfliLenQuality10 == 150
kMaxZopfliLenQuality11 == 325
\* INFINITY of <math.h>; every finite cost of the model stays far below it.
kInfinity == 1000000
\* BROTLI_UINT32_MAX, the "end of path" value of ZopfliNode.u.next.
BROTLI_UINT32_MAX == -1
BROTLI_NUM_COMMAND_SYMBOLS == 704
BROTLI_NUM_DISTANCE_SHORT_CODES == 16
\* HashTypeLengthH10(): the lookahead of the binary-tree hasher.
HashTypeLengthH10 == 4
\* MAX_NUM_MATCHES_H10: the most matches FindAllMatchesH10 writes.
MAX_NUM_MATCHES_H10 == 64
\* The ring buffer is large enough that a block never wraps in it.
ringbuffer_mask == 2047

Alphabet == {0, 1}

Min(a, b) == IF a < b THEN a ELSE b
Max(a, b) == IF a > b THEN a ELSE b

Pow2(n) == 2 ^ n

\* Log2FloorNonZero of port.h: the index of the highest set bit.
Log2FloorNonZero(n) ==
  IF n <= 1 THEN 0
  ELSE CHOOSE k \in 1 .. 29 : Pow2(k) <= n /\ n < Pow2(k + 1)

\* FastLog2 of fast_log.h in whole bits; FastLog2(0) = 0 as in its table.
FastLog2(v) == Log2FloorNonZero(v)

\* Bit k of a | b, in place.
BitOrAt(a, b, k) ==
  IF (a \div Pow2(k)) % 2 = 1 \/ (b \div Pow2(k)) % 2 = 1 THEN Pow2(k) ELSE 0

\* Bitwise or of two numbers below 2^bits, bits <= 8.
BitOr(a, b, bits) ==
  LET or(k) == IF k < bits THEN BitOrAt(a, b, k) ELSE 0
  IN  or(0) + or(1) + or(2) + or(3) + or(4) + or(5) + or(6) + or(7)

\* ------------------------------------------------- container symbol tables
kInsExtra ==
  <<0, 0, 0, 0, 0, 0, 1, 1, 2, 2, 3, 3, 4, 4, 5, 5, 6, 7, 8, 9, 10, 12, 14, 24>>
kCopyExtra ==
  <<0, 0, 0, 0, 0, 0, 0, 0, 1, 1, 2, 2, 3, 3, 4, 4, 5, 5, 6, 7, 8, 9, 10, 24>>
kDistanceCacheIndex == <<0, 1, 2, 3, 0, 0, 0, 0, 0, 0, 1, 1, 1, 1, 1, 1>>
kDistanceCacheOffset == <<0, 0, 0, 0, -1, 1, -2, 2, -3, 3, -1, 1, -2, 2, -3, 3>>

GetInsertLengthCode(insertlen) ==
  IF insertlen < 6 THEN insertlen
  ELSE IF insertlen < 130 THEN
    LET nbits == Log2FloorNonZero(insertlen - 2) - 1
    IN  (nbits * 2) + ((insertlen - 2) \div Pow2(nbits)) + 2
  ELSE IF insertlen < 2114 THEN Log2FloorNonZero(insertlen - 66) + 10
  ELSE IF insertlen < 6210 THEN 21
  ELSE IF insertlen < 22594 THEN 22
  ELSE 23

GetCopyLengthCode(copylen) ==
  IF copylen < 10 THEN copylen - 2
  ELSE IF copylen < 134 THEN
    LET nbits == Log2FloorNonZero(copylen - 6) - 1
    IN  (nbits * 2) + ((copylen - 6) \div Pow2(nbits)) + 4
  ELSE IF copylen < 2118 THEN Log2FloorNonZero(copylen - 70) + 12
  ELSE 23

GetInsertExtra(inscode) == kInsExtra[inscode + 1]
GetCopyExtra(copycode) == kCopyExtra[copycode + 1]

\* The combined insert-and-copy symbol; below 128 it implies the last distance.
CombineLengthCodes(inscode, copycode, use_last_distance) ==
  LET bits64 == (copycode % 8) + 8 * (inscode % 8)
  IN  IF use_last_distance /\ inscode < 8 /\ copycode < 16
      THEN (IF copycode < 8 THEN bits64 ELSE bits64 + 64)
      ELSE LET offset == 2 * ((copycode \div 8) + 3 * (inscode \div 8))
               hi == offset * 32 + 64
                     + 64 * ((5377344 \div Pow2(offset + 6)) % 4)
           IN  hi + bits64

\* PrefixEncodeCopyDistance(distance_code, 0, 0): the distance symbol and the
\* number of extra bits (the top byte of extra_bits).
PrefixEncodeCopyDistance(distance_code) ==
  IF distance_code < 16 THEN [code |-> distance_code, nbits |-> 0]
  ELSE LET dist == 4 + (distance_code - 16)
           bucket == Log2FloorNonZero(dist) - 1
           prefix == (dist \div Pow2(bucket)) % 2
       IN  [code |-> 16 + 2 * (bucket - 1) + prefix, nbits |-> bucket]

\* InitCommand of command.h.
InitCommand(insertlen, copylen, copylen_code, distance_code) ==
  LET dist_prefix == PrefixEncodeCopyDistance(distance_code).code
  IN  [insert_len_  |-> insertlen,
       copy_len_    |-> copylen,
       copy_code_   |-> copylen_code,
       dist_code_   |-> distance_code,
       dist_prefix_ |-> dist_prefix,
       cmd_prefix_  |-> CombineLengthCodes(GetInsertLengthCode(insertlen),
                                           GetCopyLengthCode(copylen_code),
                                           dist_prefix = 0)]

CommandCopyLen(cmd) == cmd.copy_len_

\* FindMatchLengthWithLimit(&ring[s1], &ring[s2], limit).
\* The number of leading positions, at most limit, at which the two agree.
FindMatchLengthWithLimit(ring, s1, s2, limit) ==
  CHOOSE n \in 0 .. limit :
    /\ n = limit \/ ring[s1 + n] # ring[s2 + n]
    /\ \A k \in 0 .. n - 1 : ring[s1 + k] = ring[s2 + k]

\* ------------------------------------------------------------------ nodes
\* ZopfliNode.  The uint32 fields length and distance are kept as their bit
\* fields: length = hi:8 | lo:24, distance = hi:7 | lo:25.  u is the union of
\* cost and next: <<"cost", c>> or <<"next", n>>.
StubNode ==
  [length |-> [hi |-> 0, lo |-> 1], distance |-> [hi |-> 0, lo |-> 0],
   insert_length |-> 0, u |-> <<"cost", kInfinity>>]

BrotliInitZopfliNodes(length) == [i \in 0 .. length - 1 |-> StubNode]

ZopfliNodeCopyLength(self) == self.length.lo

\* The length code with the modifier in the high byte left out.
ZopfliNodeLengthCode_ModifierIgnored(self) == ZopfliNodeCopyLength(self) + 9

ZopfliNodeLengthCode(self) ==
  LET modifier == self.length.hi IN ZopfliNodeCopyLength(self) + 9 - modifier

ZopfliNodeCopyDistance(self) == self.distance.lo

\* The distance code with the short code not decremented.
ZopfliNodeDistanceCode_ShortCodeKept(self) ==
  IF self.distance.hi = 0 THEN ZopfliNodeCopyDistance(self) + 15
  ELSE self.distance.hi

ZopfliNodeDistanceCode(self) ==
  LET short_code == self.distance.hi
  IN  IF short_code = 0 THEN ZopfliNodeCopyDistance(self) + 15
      ELSE short_code - 1

ZopfliNodeCommandLength(self) == ZopfliNodeCopyLength(self) + self.insert_length

\* The float u.cost of a node; meaningful while the union holds a cost.
NodeCost(self) == self.u[2]

\* The quality-11 cutoff one higher than the one the collection loop uses.
MaxZopfliLenForQuality_OneMore(quality) ==
  IF quality <= 10 THEN kMaxZopfliLenQuality10 ELSE kMaxZopfliLenQuality11 + 1

MaxZopfliLenForQuality(quality) ==
  IF quality <= 10 THEN kMaxZopfliLenQuality10 ELSE kMaxZopfliLenQuality11

UpdateZopfliNode_DistanceOffByOne(nodes, pos, start_pos, len, len_code, dist, short_code, cost) ==
  [nodes EXCEPT ![pos + len] =
     [length |-> [hi |-> len + 9 - len_code, lo |-> len],
      distance |-> [hi |-> short_code, lo |-> dist + 1],
      insert_length |-> pos - start_pos,
      u |-> <<"cost", cost>>]]

UpdateZopfliNode_InsertLengthDropped(nodes, pos, start_pos, len, len_code, dist, short_code, cost) ==
  [nodes EXCEPT ![pos + len] =
     [length |-> [hi |-> len + 9 - len_code, lo |-> len],
      distance |-> [hi |-> short_code, lo |-> dist],
      insert_length |-> 0,
      u |-> <<"cost", cost>>]]

UpdateZopfliNode_InsertLengthOffByOne(nodes, pos, start_pos, len, len_code, dist, short_code, cost) ==
  [nodes EXCEPT ![pos + len] =
     [length |-> [hi |-> len + 9 - len_code, lo |-> len],
      distance |-> [hi |-> short_code, lo |-> dist],
      insert_length |-> pos - start_pos + 1,
      u |-> <<"cost", cost>>]]

UpdateZopfliNode(nodes, pos, start_pos, len, len_code, dist, short_code, cost) ==
  [nodes EXCEPT ![pos + len] =
    [length |-> [hi |-> BitOr((len \div 16777216) % 256,
                              (len + 9 - len_code) % 256, 8),
                 lo |-> len % 16777216],
     distance |-> [hi |-> BitOr((dist \div 33554432) % 128,
                                short_code % 128, 7),
                   lo |-> dist % 33554432],
     insert_length |-> pos - start_pos,
     u |-> <<"cost", cost>>]]

\* ------------------------------------------------------- start-position queue
\* A slot of q_ that no push has written yet.
UninitPosData == [pos |-> -1, distance_cache |-> <<0, 0, 0, 0>>, costdiff |-> 0]

\* A StartPosQueue as it is declared: q_ unwritten, idx_ set by the init.
NewStartPosQueue == [q_ |-> [s \in 0 .. 7 |-> UninitPosData], idx_ |-> 0]

InitStartPosQueue(self) == [self EXCEPT !.idx_ = 0]

StartPosQueueSize(self) == Min(self.idx_, 8)

\* The bubble loop of StartPosQueuePush: for (i = 1; i < len; ++i).
RECURSIVE PushBubble(_, _, _, _)
PushBubble(q, offset, i, len) ==
  IF i >= len THEN q
  ELSE LET a == offset % 8
           b == (offset + 1) % 8
           q2 == IF q[a].costdiff > q[b].costdiff
                 THEN [q EXCEPT ![a] = q[b], ![b] = q[a]]
                 ELSE q
       IN  PushBubble(q2, offset + 1, i + 1, len)

StartPosQueuePush(self, posdata) ==
  LET offset == 7 - (self.idx_ % 8)
      idx2 == self.idx_ + 1
      len == Min(idx2, 8)
      q == [self.q_ EXCEPT ![offset] = posdata]
  IN  [q_ |-> PushBubble(q, offset, 1, len), idx_ |-> idx2]

StartPosQueueAt(self, k) == self.q_[(k - self.idx_) % 8]

\* ------------------------------------------------------------- cost model
\* A cost array (cost_cmd_, cost_dist_, cost_literal) is kept in closed form:
\*   [bias |-> b]              cost[i] = FastLog2(b + i) for every symbol i,
\*   [at |-> f, other |-> c]   cost[i] = f[i] for the symbols counted in the
\*                             histogram, and c for every symbol it has not.
CostAt(costs, sym) ==
  IF "bias" \in DOMAIN costs THEN FastLog2(costs.bias + sym)
  ELSE IF sym \in DOMAIN costs.at THEN costs.at[sym]
  ELSE costs.other

RECURSIVE SumOver(_, _)
SumOver(f, syms) ==
  IF syms = {} THEN 0
  ELSE LET x == CHOOSE y \in syms : TRUE
       IN  f[x] + SumOver(f, syms \ {x})

RECURSIVE MinOver(_, _)
MinOver(f, syms) ==
  IF syms = {} THEN kInfinity
  ELSE LET x == CHOOSE y \in syms : TRUE
       IN  Min(f[x], MinOver(f, syms \ {x}))

\* A histogram is the function from the symbols counted at least once to
\* their counts; every other symbol of the alphabet has count 0.
SetCost(histogram) ==
  LET sum == SumOver(histogram, DOMAIN histogram)
      log2sum == FastLog2(sum)
  IN  [at |-> [sym \in DOMAIN histogram |->
                 Max(1, log2sum - FastLog2(histogram[sym]))],
       other |-> log2sum + 2]

\* The minimum over all histogram_size symbols of a fitted cost array.
MinCost(costs, histogram_size) ==
  LET counted == MinOver(costs.at, DOMAIN costs.at)
  IN  IF Cardinality(DOMAIN costs.at) < histogram_size
      THEN Min(counted, costs.other) ELSE counted

\* literal_costs[0] = 0; literal_costs[i + 1] = literal_costs[i] + per_byte[i]:
\* entry i is the sum of per_byte[0 .. i - 1], taken value by value.
LiteralPrefix(per_byte, num_bytes) ==
  LET values == {per_byte[j] : j \in DOMAIN per_byte}
      weighted(i) ==
        [v \in values |->
          v * Cardinality({j \in 0 .. i - 1 : per_byte[j] = v})]
  IN  [i \in 0 .. num_bytes |-> SumOver(weighted(i), values)]

\* estimate[b] stands for BrotliEstimateBitCostsForLiterals: the predicted
\* bits of a literal byte b.
ZopfliCostModelSetFromLiteralCosts(num_bytes, position, ringbuffer, estimate) ==
  [cost_cmd_ |-> [bias |-> 11],
   cost_dist_ |-> [bias |-> 20],
   literal_costs_ |->
     LiteralPrefix([i \in 0 .. num_bytes - 1 |->
                      estimate[ringbuffer[(position + i) % (ringbuffer_mask + 1)]]],
                   num_bytes),
   min_cost_cmd_ |-> FastLog2(11),
   num_bytes_ |-> num_bytes]

\* The ring positions of the literals of commands[i ..], the first starting
\* at pos (the inner loop over j of ZopfliCostModelSetFromCommands).
RECURSIVE InsertPositions(_, _, _, _)
InsertPositions(commands, num_commands, i, pos) ==
  IF i > num_commands THEN {}
  ELSE LET inslength == commands[i].insert_len_
           copylength == CommandCopyLen(commands[i])
       IN  {pos + j : j \in 0 .. inslength - 1}
           \cup InsertPositions(commands, num_commands, i + 1,
                                pos + inslength + copylength)

ZopfliCostModelSetFromCommands(num_bytes, position, ringbuffer, commands, num_commands, last_insert_len) ==
  LET lits == InsertPositions(commands, num_commands, 1,
                              position - last_insert_len)
      byte(p) == ringbuffer[p % (ringbuffer_mask + 1)]
      cmds == 1 .. num_commands
      dists == {i \in cmds : commands[i].cmd_prefix_ >= 128}
      histogram_literal ==
        [b \in {byte(p) : p \in lits} |->
          Cardinality({p \in lits : byte(p) = b})]
      histogram_cmd ==
        [c \in {commands[i].cmd_prefix_ : i \in cmds} |->
          Cardinality({i \in cmds : commands[i].cmd_prefix_ = c})]
      histogram_dist ==
        [d \in {commands[i].dist_prefix_ : i \in dists} |->
          Cardinality({i \in dists : commands[i].dist_prefix_ = d})]
      cost_literal == SetCost(histogram_literal)
      cost_cmd == SetCost(histogram_cmd)
  IN  [cost_cmd_ |-> cost_cmd,
       cost_dist_ |-> SetCost(histogram_dist),
       literal_costs_ |->
         LiteralPrefix([i \in 0 .. num_bytes - 1 |->
                          CostAt(cost_literal, byte(position + i))],
                       num_bytes),
       min_cost_cmd_ |-> MinCost(cost_cmd, BROTLI_NUM_COMMAND_SYMBOLS),
       num_bytes_ |-> num_bytes]

ZopfliCostModelGetCommandCost(self, cmdcode) == CostAt(self.cost_cmd_, cmdcode)

ZopfliCostModelGetDistanceCost(self, distcode) == CostAt(self.cost_dist_, distcode)

\* The difference of the prefix sums with its operands exchanged.
ZopfliCostModelGetLiteralCosts_Exchanged(self, from, to) ==
  self.literal_costs_[from] - self.literal_costs_[to]

ZopfliCostModelGetLiteralCosts(self, from, to) ==
  self.literal_costs_[to] - self.literal_costs_[from]

ZopfliCostModelGetMinCostCmd(self) == self.min_cost_cmd_

\* ------------------------------------------------ distance cache and min_len
\* The while loop of ComputeMinimumCopyLength.
RECURSIVE MinimumCopyLengthLoop(_, _, _, _, _, _, _)
MinimumCopyLengthLoop(nodes, num_bytes, pos, min_cost, len, next_len_bucket, next_len_offset) ==
  IF pos + len <= num_bytes /\ NodeCost(nodes[pos + len]) <= min_cost
  THEN IF len + 1 = next_len_offset
       THEN MinimumCopyLengthLoop(nodes, num_bytes, pos, min_cost + 1, len + 1,
                                  next_len_bucket * 2,
                                  next_len_offset + next_len_bucket)
       ELSE MinimumCopyLengthLoop(nodes, num_bytes, pos, min_cost, len + 1,
                                  next_len_bucket, next_len_offset)
  ELSE len

ComputeMinimumCopyLength(queue, nodes, model, num_bytes, pos) ==
  LET start0 == StartPosQueueAt(queue, 0).pos
      min_cost == NodeCost(nodes[start0])
                  + ZopfliCostModelGetLiteralCosts(model, start0, pos)
                  + ZopfliCostModelGetMinCostCmd(model)
  IN  MinimumCopyLengthLoop(nodes, num_bytes, pos, min_cost, 2, 4, 10)

\* The while loop of ComputeDistanceCache; found holds dist_cache[0 .. idx-1].
RECURSIVE DistanceCacheWalk(_, _, _, _, _)
DistanceCacheWalk(block_start, max_backward, nodes, p, found) ==
  IF Len(found) < 4 /\ p > 0
  THEN LET clen == ZopfliNodeCopyLength(nodes[p])
           ilen == nodes[p].insert_length
           dist == ZopfliNodeCopyDistance(nodes[p])
           found2 == IF /\ dist + clen <= block_start + p
                        /\ dist <= max_backward
                        /\ ZopfliNodeDistanceCode(nodes[p]) > 0
                     THEN Append(found, dist)
                     ELSE found
       IN  DistanceCacheWalk(block_start, max_backward, nodes,
                             p - (clen + ilen), found2)
  ELSE found

ComputeDistanceCache(block_start, pos, max_backward, starting_dist_cache, nodes) ==
  LET found == DistanceCacheWalk(block_start, max_backward, nodes, pos, <<>>)
  IN  SubSeq(found \o starting_dist_cache, 1, 4)

\* ------------------------------------------------------------- UpdateNodes
\* cx carries the arguments of UpdateNodes that its loops only read:
\* num_bytes, block_start, pos, ringbuffer, quality, max_backward_limit, model.
CurIx(cx) == cx.block_start + cx.pos
MaxDistance(cx) == Min(CurIx(cx), cx.max_backward_limit)

\* Lines 422-424: the distance short code j stands for, given the last four
\* distances (before the cast to size_t).
ShortCodeBackward(distance_cache, j) ==
  distance_cache[kDistanceCacheIndex[j + 1] + 1] + kDistanceCacheOffset[j + 1]

\* The test passing on equal costs as well.
Relaxes_OnTies(cost, node) == cost <= NodeCost(node)

\* Lines 455 and 503: if (cost < nodes[pos + len].u.cost).
Relaxes(cost, node) == cost < NodeCost(node)

\* for (l = best_len + 1; l <= len; ++l) of the short-code probe, l running
\* from first: iteration l reads and writes nodes[pos + l] alone, so the
\* array after the loop is given node by node.
ShortCodeLengths(cx, start, inscode, base_cost, backward, j, nodes, first, len) ==
  LET dist_cost == base_cost + ZopfliCostModelGetDistanceCost(cx.model, j)
      copycode(l) == GetCopyLengthCode(l)
      cmdcode(l) == CombineLengthCodes(inscode, copycode(l), j = 0)
      cost(l) == (IF cmdcode(l) < 128 THEN base_cost ELSE dist_cost)
                 + GetCopyExtra(copycode(l))
                 + ZopfliCostModelGetCommandCost(cx.model, cmdcode(l))
  IN  [n \in DOMAIN nodes |->
        LET l == n - cx.pos
            next == nodes[n]
        IN  IF l >= first /\ l <= len /\ Relaxes(cost(l), next)
            THEN UpdateZopfliNode(nodes, cx.pos, start, l, l, backward, j + 1,
                                  cost(l))[n]
            ELSE next]

\* One iteration of the loop over the short codes; st holds the loop's
\* variables j, best_len and the node array.
\* backward is (size_t)(int): a sum <= 0 wraps to a huge value, and then, as
\* for backward > cur_ix, prev_ix = cur_ix - backward wraps to >= cur_ix.
ShortCodeTry(cx, posdata, inscode, base_cost, st) ==
  LET max_len == cx.num_bytes - cx.pos
      backward == ShortCodeBackward(posdata.distance_cache, st.j)
      cur_ix == CurIx(cx)
      cur_ix_masked == cur_ix % (ringbuffer_mask + 1)
      prev_ix == (cur_ix - backward) % (ringbuffer_mask + 1)
      skip == \/ backward <= 0
              \/ backward > cur_ix
              \/ backward > MaxDistance(cx)
              \/ cur_ix_masked + st.best_len > ringbuffer_mask
              \/ prev_ix + st.best_len > ringbuffer_mask
              \/ cx.ringbuffer[cur_ix_masked + st.best_len]
                   # cx.ringbuffer[prev_ix + st.best_len]
      len == FindMatchLengthWithLimit(cx.ringbuffer, prev_ix, cur_ix_masked,
                                      max_len)
  IN  IF skip THEN [st EXCEPT !.j = st.j + 1]
      ELSE [j |-> st.j + 1,
            best_len |-> Max(st.best_len, len),
            nodes |-> ShortCodeLengths(cx, posdata.pos, inscode, base_cost,
                                       backward, st.j, st.nodes,
                                       st.best_len + 1, len)]

\* for (; j < BROTLI_NUM_DISTANCE_SHORT_CODES && best_len < max_len; ++j).
RECURSIVE ShortCodeProbe(_, _, _, _, _)
ShortCodeProbe(cx, posdata, inscode, base_cost, st) ==
  IF st.j < BROTLI_NUM_DISTANCE_SHORT_CODES /\ st.best_len < cx.num_bytes - cx.pos
  THEN ShortCodeProbe(cx, posdata, inscode, base_cost,
                      ShortCodeTry(cx, posdata, inscode, base_cost, st))
  ELSE st.nodes

\* for (; len <= max_match_len; ++len) of the fresh-distance probe, len
\* running from first: iteration len reads and writes nodes[pos + len] alone.
MatchLengths(cx, start, inscode, dist_cost, match, nodes, first, max_match_len) ==
  LET is_dictionary_match == match.distance > MaxDistance(cx)
      len_code(len) == IF is_dictionary_match THEN match.len_code ELSE len
      copycode(len) == GetCopyLengthCode(len_code(len))
      cmdcode(len) == CombineLengthCodes(inscode, copycode(len), FALSE)
      cost(len) == dist_cost + GetCopyExtra(copycode(len))
                   + ZopfliCostModelGetCommandCost(cx.model, cmdcode(len))
  IN  [n \in DOMAIN nodes |->
        LET len == n - cx.pos
            next == nodes[n]
        IN  IF len >= first /\ len <= max_match_len
               /\ Relaxes(cost(len), next)
            THEN UpdateZopfliNode(nodes, cx.pos, start, len, len_code(len),
                                  match.distance, 0, cost(len))[n]
            ELSE next]

\* One iteration of the loop over the matches; st holds the loop's variables
\* j (counted from 1, matches being a sequence), len and the node array.
MatchTry(cx, start, inscode, base_cost, matches, st) ==
  LET match == matches[st.j]
      dist == match.distance
      is_dictionary_match == dist > MaxDistance(cx)
      enc == PrefixEncodeCopyDistance(dist + 15)
      dist_cost == base_cost + enc.nbits
                   + ZopfliCostModelGetDistanceCost(cx.model, enc.code)
      max_match_len == match.length
      len2 == IF /\ st.len < max_match_len
                 /\ (is_dictionary_match
                     \/ max_match_len > MaxZopfliLenForQuality(cx.quality))
              THEN max_match_len ELSE st.len
  IN  [j |-> st.j + 1,
       len |-> Max(len2, max_match_len + 1),
       nodes |-> MatchLengths(cx, start, inscode, dist_cost, match, st.nodes,
                              len2, max_match_len)]

\* for (j = 0; j < num_matches; ++j).
RECURSIVE MatchProbe(_, _, _, _, _, _)
MatchProbe(cx, start, inscode, base_cost, matches, st) ==
  IF st.j > Len(matches) THEN st.nodes
  ELSE MatchProbe(cx, start, inscode, base_cost, matches,
                  MatchTry(cx, start, inscode, base_cost, matches, st))

\* One iteration of the loop over the start positions; st holds k and the
\* node array.
StartPositionTry(cx, queue, matches, min_len, st) ==
  LET posdata == StartPosQueueAt(queue, st.k)
      start == posdata.pos
      inscode == GetInsertLengthCode(cx.pos - start)
      base_cost == posdata.costdiff + GetInsertExtra(inscode)
                   + ZopfliCostModelGetLiteralCosts(cx.model, 0, cx.pos)
      nodes2 == ShortCodeProbe(cx, posdata, inscode, base_cost,
                  [j |-> 0, best_len |-> min_len - 1, nodes |-> st.nodes])
  IN  [k |-> st.k + 1,
       nodes |-> IF st.k >= 2 THEN nodes2
                 ELSE MatchProbe(cx, start, inscode, base_cost, matches,
                        [j |-> 1, len |-> min_len, nodes |-> nodes2])]

\* for (k = 0; k < max_iters && k < StartPosQueueSize(queue); ++k).
RECURSIVE StartPositions(_, _, _, _, _)
StartPositions(cx, queue, matches, min_len, st) ==
  LET max_iters == IF cx.quality <= 10 THEN 1 ELSE 5 IN
  IF st.k < max_iters /\ st.k < StartPosQueueSize(queue)
  THEN StartPositions(cx, queue, matches, min_len,
                      StartPositionTry(cx, queue, matches, min_len, st))
  ELSE st.nodes

\* The admission without its test: every position becomes a start position.
AdmitStartPosition_Untested(cx, starting_dist_cache, queue, nodes) ==
  StartPosQueuePush(queue,
    [pos |-> cx.pos,
     costdiff |-> NodeCost(nodes[cx.pos])
                  - ZopfliCostModelGetLiteralCosts(cx.model, 0, cx.pos),
     distance_cache |->
       ComputeDistanceCache(cx.block_start, cx.pos, cx.max_backward_limit,
                            starting_dist_cache, nodes)])

\* The admission with a strict test: a position whose cost equals the cost of
\* literals alone, position 0 among them, is not admitted.
AdmitStartPosition_Strict(cx, starting_dist_cache, queue, nodes) ==
  IF NodeCost(nodes[cx.pos])
       < ZopfliCostModelGetLiteralCosts(cx.model, 0, cx.pos)
  THEN StartPosQueuePush(queue,
         [pos |-> cx.pos,
          costdiff |-> NodeCost(nodes[cx.pos])
                       - ZopfliCostModelGetLiteralCosts(cx.model, 0, cx.pos),
          distance_cache |->
            ComputeDistanceCache(cx.block_start, cx.pos, cx.max_backward_limit,
                                 starting_dist_cache, nodes)])
  ELSE queue

\* The admission test and push of UpdateNodes (lines 395-403).
AdmitStartPosition(cx, starting_dist_cache, queue, nodes) ==
  IF NodeCost(nodes[cx.pos])
       <= ZopfliCostModelGetLiteralCosts(cx.model, 0, cx.pos)
  THEN StartPosQueuePush(queue,
         [pos |-> cx.pos,
          costdiff |-> NodeCost(nodes[cx.pos])
                       - ZopfliCostModelGetLiteralCosts(cx.model, 0, cx.pos),
          distance_cache |->
            ComputeDistanceCache(cx.block_start, cx.pos, cx.max_backward_limit,
                                 starting_dist_cache, nodes)])
  ELSE queue

\* UpdateNodes: the queue and the node array after expanding position cx.pos.
\* empty_read: ComputeMinimumCopyLength read StartPosQueueAt(queue, 0) while
\* the queue held no entry; the slot it reads is stale or unwritten, and the
\* min_len computed from it is used by no iteration of the loop over k.
UpdateNodes(cx, starting_dist_cache, matches, queue, nodes) ==
  LET queue2 == AdmitStartPosition(cx, starting_dist_cache, queue, nodes)
      empty == StartPosQueueSize(queue2) = 0
      min_len == IF empty THEN 2
                 ELSE ComputeMinimumCopyLength(queue2, nodes, cx.model,
                                               cx.num_bytes, cx.pos)
  IN  [queue |-> queue2,
       nodes |-> StartPositions(cx, queue2, matches, min_len,
                                [k |-> 0, nodes |-> nodes]),
       empty_read |-> empty]

\* ------------------------------------------------------------- back-trace
\* while (nodes[index].u.cost == kInfinity) --index;
LastFiniteNode(nodes, index) ==
  CHOOSE j \in 0 .. index :
    /\ NodeCost(nodes[j]) # kInfinity
    /\ \A k \in j + 1 .. index : NodeCost(nodes[k]) = kInfinity

\* while (index != 0) of ComputeShortestPathFromNodes.
RECURSIVE BackTrace(_, _, _)
BackTrace(nodes, index, num_commands) ==
  IF index = 0 THEN [nodes |-> nodes, num_commands |-> num_commands]
  ELSE LET len == ZopfliNodeCommandLength(nodes[index])
       IN  BackTrace([nodes EXCEPT ![index - len].u = <<"next", len>>],
                     index - len, num_commands + 1)

ComputeShortestPathFromNodes(num_bytes, nodes) ==
  LET index == LastFiniteNode(nodes, num_bytes)
  IN  BackTrace([nodes EXCEPT ![index].u = <<"next", BROTLI_UINT32_MAX>>],
                index, 0)

\* ------------------------------------------------------------ match finder
\* BackwardMatch: [distance, length, len_code]; BackwardMatchLength is
\* .length and BackwardMatchLengthCode is .len_code.
\* The matches inside the window at absolute position cur_ix, nearest first,
\* each strictly longer than the ones before it (lengths from 2).
WindowMatches(ring, cur_ix, max_length, max_distance) ==
  LET len == [d \in 1 .. max_distance |->
               FindMatchLengthWithLimit(ring, cur_ix - d, cur_ix, max_length)]
      ds == {d \in 1 .. max_distance :
               len[d] > 1 /\ \A e \in 1 .. d - 1 : len[e] < len[d]}
      nth(k) == CHOOSE d \in ds : Cardinality({e \in ds : e < d}) = k - 1
  IN  [k \in 1 .. Cardinality(ds) |->
        [distance |-> nth(k), length |-> len[nth(k)],
         len_code |-> len[nth(k)]]]

LastLength(ms) == IF ms = <<>> THEN 1 ELSE ms[Len(ms)].length

\* The static dictionary, reduced to one word.  The word itself matches with
\* its own length as length code; the word without its last byte (the
\* omit-last-1 transform) matches one byte shorter under the same length code.
kDictionaryWord == <<0, 1, 1, 0, 1>>

StartsWith(ring, cur_ix, n) ==
  \A k \in 1 .. n : ring[cur_ix + k - 1] = kDictionaryWord[k]

\* The dictionary matches of lengths minlen .. max_length, shortest first;
\* their distances lie beyond max_distance.
DictionaryMatches(ring, cur_ix, minlen, max_length, max_distance) ==
  LET word_len == Len(kDictionaryWord)
      at(l) == [distance |-> max_distance + 1, length |-> l,
                len_code |-> word_len]
      usable(l) == l >= minlen /\ l <= max_length /\ StartsWith(ring, cur_ix, l)
  IN  (IF usable(word_len - 1) THEN <<at(word_len - 1)>> ELSE <<>>)
      \o (IF usable(word_len) THEN <<at(word_len)>> ELSE <<>>)

\* FindAllMatchesH10 at cur_ix: the window matches, then the dictionary
\* matches that are at least 4 long and longer than all of them.
FindAllMatchesH10(ring, cur_ix, max_length, max_distance) ==
  LET window == WindowMatches(ring, cur_ix, max_length, max_distance)
  IN  window \o DictionaryMatches(ring, cur_ix, Max(4, LastLength(window) + 1),
                                  max_length, max_distance)

\* MaxBackwardLimit(lgwin) of the encoder's parameters.
MaxBackwardLimit(lgwin) == Pow2(lgwin) - 16

\* ---------------------------------------------------------------- state
VARIABLES
  arg,              \* num_bytes, position, ringbuffer, quality, lgwin
  estimate,         \* the literal cost estimator's bits per byte value
  entry,            \* the in/out arguments as they were on entry
  dist_cache, last_insert_len, commands, num_commands, num_literals,
  m,                \* MemoryManager: is_oom, and the requests made
  pc,               \* position in BrotliCreateBackwardReferences and callees
  i,                \* the position loops' index
  pass,             \* the index of the two-pass loop (quality 11)
  nodes, queue, model,
  num_matches, matches, cur_match_pos, matches_size,
  orig,             \* orig_num_literals, orig_last_insert_len, ...
  emit,             \* locals of BrotliZopfliCreateCommands: pos, offset, i
  copies,           \* per emitted command: where its copy starts and from where
  empty_reads,      \* ComputeMinimumCopyLength calls made on an empty queue
  pushed,           \* queue-only specification: the entries pushed so far
  brotlirep,        \* the global flag of line 14, set outside this file
  call, result      \* one call of a pure function: its arguments, its value

vars == <<arg, estimate, entry, dist_cache, last_insert_len, commands,
          num_commands, num_literals, m, pc, i, pass, nodes, queue, model,
          num_matches, matches, cur_match_pos, matches_size, orig, emit,
          copies, empty_reads, pushed, brotlirep, call, result>>

kInitialDistanceCache == <<4, 11, 15, 16>>

\* The states an encoder can be in before a meta-block at `position`: either
\* the earlier bytes 1 0 1 0 ... are all still pending literals, or they are
\* kHistory, emitted as  0 | copy 2 from 1 | 1 0 | copy 2 from 2 |
\* copy 2 from 1 | 1 | copy 2 from 2  (four literals, four commands), which
\* leaves the last four distances at <<2, 1, 2, 1>>.
kHistory == <<0, 0, 0, 1, 0, 1, 0, 0, 0, 1, 0, 1>>

PriorStates ==
  {[position |-> n, prefix |-> [k \in 1 .. n |-> k % 2],
    dist_cache |-> kInitialDistanceCache,
    last_insert_len |-> n, num_commands |-> 0, num_literals |-> 0] :
     n \in 0 .. MaxPosition}
  \cup
  {[position |-> Len(kHistory), prefix |-> kHistory,
    dist_cache |-> <<2, 1, 2, 1>>,
    last_insert_len |-> 0, num_commands |-> 4, num_literals |-> 4]}

\* The meta-blocks: every byte string of up to MaxBytes bytes, and the
\* concatenations of up to MaxWords words.
Words == {<<1, 0, 1, 1>>, <<0, 1, 0, 0, 1>>}

RECURSIVE Concat(_)
Concat(ws) == IF ws = <<>> THEN <<>> ELSE ws[1] \o Concat(Tail(ws))

\* Meta-blocks with a run of one byte long enough that the match found at
\* its third byte, one byte shorter than the run, is longer than
\* kMaxZopfliLenQuality11 (by one): a byte, the run, and a tail.
LongTails == {<<>>, <<1, 0, 1, 1>>, <<1, 1, 0, 1, 1>>}

LongBlocks ==
  {<<1>> \o [k \in 1 .. kMaxZopfliLenQuality11 + 2 |-> 0] \o tail :
     tail \in LongTails}

Blocks ==
  UNION {[1 .. n -> Alphabet] : n \in 0 .. MaxBytes}
  \cup {Concat(ws) : ws \in UNION {[1 .. k -> Words] : k \in 1 .. MaxWords}}
  \cup LongBlocks

LiteralEstimates == {[b \in Alphabet |-> 2], [b \in Alphabet |-> 8]}

NoModel == [cost_cmd_ |-> [bias |-> 0], cost_dist_ |-> [bias |-> 0],
            literal_costs_ |-> <<>>, min_cost_cmd_ |-> 0, num_bytes_ |-> 0]
NoOrig == [num_literals |-> 0, last_insert_len |-> 0,
           dist_cache |-> <<0, 0, 0, 0>>, num_commands |-> 0]
NoEmit == [pos |-> 0, offset |-> 0, i |-> 0]
\* No pure function is being called.
NoCall == <<>>

Init ==
  \E prior \in PriorStates, block \in Blocks, q \in {10, 11} :
    /\ arg = [num_bytes |-> Len(block), position |-> prior.position,
              ringbuffer |-> [a \in 0 .. prior.position + Len(block) - 1 |->
                                (prior.prefix \o block)[a + 1]],
              quality |-> q, lgwin |-> 10]
    /\ estimate \in LiteralEstimates
    /\ entry = [dist_cache |-> prior.dist_cache,
                last_insert_len |-> prior.last_insert_len,
                num_commands |-> prior.num_commands,
                num_literals |-> prior.num_literals]
    /\ dist_cache = prior.dist_cache
    /\ last_insert_len = prior.last_insert_len
    /\ commands = <<>>
    /\ num_commands = prior.num_commands
    /\ num_literals = prior.num_literals
    /\ m = [is_oom |-> FALSE, requests |-> 0, after_oom |-> 0]
    /\ pc = "entry"
    /\ i = 0
    /\ pass = 0
    /\ nodes = <<>>
    /\ queue = NewStartPosQueue
    /\ model = NoModel
    /\ num_matches = <<>>
    /\ matches = <<>>
    /\ cur_match_pos = 0
    /\ matches_size = 0
    /\ orig = NoOrig
    /\ emit = NoEmit
    /\ copies = <<>>
    /\ empty_reads = 0
    /\ pushed = <<>>
    /\ brotlirep = 1
    /\ call = NoCall
    /\ result = NoCall

\* ---------------------------------------------------------------- helpers
block_start == arg.position
max_backward_limit == MaxBackwardLimit(arg.lgwin)

\* A request to the allocator: it may fail, which sets the sticky flag.
Request(mm, fails) ==
  [is_oom |-> mm.is_oom \/ fails,
   requests |-> mm.requests + 1,
   after_oom |-> mm.after_oom + (IF mm.is_oom THEN 1 ELSE 0)]

\* BROTLI_IS_OOM(m): the sticky flag.
BROTLI_IS_OOM(mm) == mm.is_oom

\* The loop condition shared by the three position loops (i + 3 < num_bytes).
MorePositions == i + HashTypeLengthH10 - 1 < arg.num_bytes

Context(p) ==
  [num_bytes |-> arg.num_bytes, block_start |-> block_start, pos |-> p,
   ringbuffer |-> arg.ringbuffer, quality |-> arg.quality,
   max_backward_limit |-> max_backward_limit, model |-> model]

\* nodes[0].length = 0; nodes[0].u.cost = 0;
StartNode(ns) ==
  [ns EXCEPT ![0].length = [hi |-> 0, lo |-> 0], ![0].u = <<"cost", 0>>]

\* ------------------------------------------- BrotliCreateBackwardReferences
\* Lines 721-729: InitH10 may allocate; then the branch on quality.
Enter ==
  /\ pc = "entry"
  /\ \E fails \in BOOLEAN :
       /\ m' = Request(m, fails)
       /\ pc' = IF BROTLI_IS_OOM(m') THEN "done"
                ELSE IF arg.quality = 10 THEN "q10_nodes" ELSE "q11_arrays"
  /\ UNCHANGED <<pushed, brotlirep, call, result>>
  /\ UNCHANGED <<arg, estimate, entry, dist_cache, last_insert_len, commands,
                 num_commands, num_literals, i, pass, nodes, queue, model,
                 num_matches, matches, cur_match_pos, matches_size, orig, emit,
                 copies, empty_reads>>

\* Lines 730-732: the node array of the one-pass path.
AllocNodesQ10 ==
  /\ pc = "q10_nodes"
  /\ \E fails \in BOOLEAN :
       /\ m' = Request(m, fails)
       /\ pc' = IF BROTLI_IS_OOM(m') THEN "done" ELSE "zcsp_init"
       /\ nodes' = IF BROTLI_IS_OOM(m') THEN nodes
                   ELSE BrotliInitZopfliNodes(arg.num_bytes + 1)
  /\ UNCHANGED <<pushed, brotlirep, call, result>>
  /\ UNCHANGED <<arg, estimate, entry, dist_cache, last_insert_len, commands,
                 num_commands, num_literals, i, pass, queue, model,
                 num_matches, matches, cur_match_pos, matches_size, orig, emit,
                 copies, empty_reads>>

\* BrotliZopfliComputeShortestPath, lines 618-631; on failure it returns 0,
\* which line 733 adds to *num_commands before line 736 returns.
ShortestPathInit ==
  /\ pc = "zcsp_init"
  /\ nodes' = StartNode(nodes)
  /\ \E fails \in BOOLEAN :
       /\ m' = Request(m, fails)
       /\ pc' = IF BROTLI_IS_OOM(m') THEN "done" ELSE "zcsp_loop"
       /\ model' = IF BROTLI_IS_OOM(m') THEN model
                   ELSE ZopfliCostModelSetFromLiteralCosts(
                          arg.num_bytes, arg.position, arg.ringbuffer, estimate)
       /\ queue' = IF BROTLI_IS_OOM(m') THEN queue
                   ELSE InitStartPosQueue(NewStartPosQueue)
  /\ num_commands' = num_commands + 0
  /\ i' = 0
  /\ UNCHANGED <<pushed, brotlirep, call, result>>
  /\ UNCHANGED <<arg, estimate, entry, dist_cache, last_insert_len, commands,
                 num_literals, pass, num_matches, matches, cur_match_pos,
                 matches_size, orig, emit, copies, empty_reads>>

\* One iteration of the loop of lines 632-653.
ShortestPathStep ==
  /\ pc = "zcsp_loop"
  /\ MorePositions
  /\ LET pos == arg.position + i
         max_distance == Min(pos, max_backward_limit)
         max_zopfli_len == MaxZopfliLenForQuality(arg.quality)
         found == FindAllMatchesH10(arg.ringbuffer, pos, arg.num_bytes - i,
                                    max_distance)
     IN    LET ms == IF /\ Len(found) > 0
                        /\ found[Len(found)].length > max_zopfli_len
                     THEN <<found[Len(found)]>> ELSE found
               r == UpdateNodes(Context(i), dist_cache, ms, queue, nodes)
               long == Len(ms) = 1 /\ ms[1].length > max_zopfli_len
           IN  /\ nodes' = r.nodes
               /\ queue' = IF long THEN InitStartPosQueue(r.queue) ELSE r.queue
               /\ i' = IF long THEN i + (ms[1].length - 1) + 1 ELSE i + 1
               /\ empty_reads' = empty_reads + (IF r.empty_read THEN 1 ELSE 0)
  /\ UNCHANGED <<pushed, brotlirep, call, result>>
  /\ UNCHANGED <<arg, estimate, entry, dist_cache, last_insert_len, commands,
                 num_commands, num_literals, m, pc, pass, model, num_matches,
                 matches, cur_match_pos, matches_size, orig, emit, copies>>

\* The locals of BrotliZopfliCreateCommands at its first loop test.
EmitStart(ns) == [pos |-> 0, offset |-> ns[0].u[2], i |-> 0]

\* Lines 654-655 and 733: the back-trace, counted into *num_commands.
ShortestPathFinish ==
  /\ pc = "zcsp_loop"
  /\ ~MorePositions
  /\ LET r == ComputeShortestPathFromNodes(arg.num_bytes, nodes)
     IN  /\ nodes' = r.nodes
         /\ num_commands' = num_commands + r.num_commands
         /\ emit' = EmitStart(r.nodes)
  /\ pc' = "emit"
  /\ UNCHANGED <<pushed, brotlirep, call, result>>
  /\ UNCHANGED <<arg, estimate, entry, dist_cache, last_insert_len, commands,
                 num_literals, m, i, pass, queue, model, num_matches, matches,
                 cur_match_pos, matches_size, orig, copies, empty_reads>>

\* ------------------------------------------------ BrotliZopfliCreateCommands
\* commands[k] = cmd, for an array that holds Len(cmds) written entries.
WriteCommand(cmds, k, cmd) ==
  IF k < Len(cmds) THEN [cmds EXCEPT ![k + 1] = cmd] ELSE Append(cmds, cmd)

\* The shift done front to back: entry 0 overwrites the three behind it.
EmitterDistCache_ShiftFrontToBack(cache, is_dictionary, dist_code, distance) ==
  IF ~is_dictionary /\ dist_code > 0
  THEN <<distance, cache[1], cache[1], cache[1]>>
  ELSE cache

\* The cache update without the dictionary test.
EmitterDistCache_NoDictionaryTest(cache, is_dictionary, dist_code, distance) ==
  IF dist_code > 0
  THEN <<distance, cache[1], cache[2], cache[3]>>
  ELSE cache

\* Lines 559-564: the persistent cache after one emitted command.
EmitterDistCache(cache, is_dictionary, dist_code, distance) ==
  IF ~is_dictionary /\ dist_code > 0
  THEN <<distance, cache[1], cache[2], cache[3]>>
  ELSE cache

\* The fold without clearing *last_insert_len.
FoldLastInsert_NotCleared(cmd_index, insert_length, pending) ==
  IF cmd_index = 0
  THEN [insert_length |-> insert_length + pending, pending |-> pending]
  ELSE [insert_length |-> insert_length, pending |-> pending]

\* Lines 544-547: the insert length of command i and what is left pending.
FoldLastInsert(cmd_index, insert_length, pending) ==
  IF cmd_index = 0
  THEN [insert_length |-> insert_length + pending, pending |-> 0]
  ELSE [insert_length |-> insert_length, pending |-> pending]

\* One iteration of the loop of lines 538-569.
CreateCommandsStep ==
  /\ pc = "emit"
  /\ emit.offset # BROTLI_UINT32_MAX
  /\ LET next == nodes[emit.pos + emit.offset]
         copy_length == ZopfliNodeCopyLength(next)
         pos == emit.pos + next.insert_length
         fold == FoldLastInsert(emit.i, next.insert_length, last_insert_len)
         distance == ZopfliNodeCopyDistance(next)
         len_code == ZopfliNodeLengthCode(next)
         max_distance == Min(block_start + pos, max_backward_limit)
         is_dictionary == distance > max_distance
         dist_code == ZopfliNodeDistanceCode(next)
     IN  /\ last_insert_len' = fold.pending
         /\ commands' = WriteCommand(commands, emit.i,
                          InitCommand(fold.insert_length, copy_length,
                                      len_code, dist_code))
         /\ dist_cache' = EmitterDistCache(dist_cache, is_dictionary,
                                           dist_code, distance)
         /\ num_literals' = num_literals + fold.insert_length
         /\ emit' = [pos |-> pos + copy_length, offset |-> next.u[2],
                     i |-> emit.i + 1]
         /\ copies' = Append(copies,
                        [start |-> pos, distance |-> distance,
                         copy_length |-> copy_length,
                         insert_length |-> fold.insert_length,
                         is_dictionary |-> is_dictionary,
                         node_insert_length |-> next.insert_length,
                         dist_code |-> dist_code, short_code |-> next.distance.hi,
                         cache_before |-> dist_cache])
  /\ UNCHANGED <<pushed, brotlirep, call, result>>
  /\ UNCHANGED <<arg, estimate, entry, num_commands, m, pc, i, pass, nodes,
                 queue, model, num_matches, matches, cur_match_pos,
                 matches_size, orig, empty_reads>>

\* Line 803: for (i = 0; i < 2; i++).
MorePasses(done) == done < 2

\* Line 570, then the caller: quality 10 frees the nodes and returns (lines
\* 739-740); quality 11 ends the pass (line 822), runs the next one or
\* releases its arrays and returns (lines 823-828).
CreateCommandsFinish ==
  /\ pc = "emit"
  /\ emit.offset = BROTLI_UINT32_MAX
  /\ last_insert_len' = last_insert_len + (arg.num_bytes - emit.pos)
  /\ pass' = IF arg.quality = 10 THEN pass ELSE pass + 1
  /\ pc' = IF arg.quality # 10 /\ MorePasses(pass + 1) THEN "pass" ELSE "done"
  /\ UNCHANGED <<pushed, brotlirep, call, result>>
  /\ UNCHANGED <<arg, estimate, entry, dist_cache, commands, num_commands,
                 num_literals, m, i, nodes, queue, model, num_matches, matches,
                 cur_match_pos, matches_size, orig, emit, copies, empty_reads>>

\* ------------------------------------------------------ quality 11 (two passes)
\* Lines 742-755: both arrays are requested before the one test for failure.
\* BROTLI_ALLOC of zero elements makes no request.
AllocMatchArrays ==
  /\ pc = "q11_arrays"
  /\ \E f1, f2 \in (IF arg.num_bytes > 0 THEN BOOLEAN ELSE {FALSE}) :
       /\ m' = IF arg.num_bytes > 0 THEN Request(Request(m, f1), f2) ELSE m
       /\ pc' = IF BROTLI_IS_OOM(m') THEN "done" ELSE "collect"
       /\ num_matches' = IF BROTLI_IS_OOM(m') THEN num_matches
                         ELSE [k \in 0 .. arg.num_bytes - 1 |-> -1]
  /\ matches' = <<>>
  /\ matches_size' = 4 * arg.num_bytes
  /\ cur_match_pos' = 0
  /\ i' = 0
  /\ UNCHANGED <<pushed, brotlirep, call, result>>
  /\ UNCHANGED <<arg, estimate, entry, dist_cache, last_insert_len, commands,
                 num_commands, num_literals, pass, nodes, queue, model, orig,
                 emit, copies, empty_reads>>

\* BROTLI_ENSURE_CAPACITY: the capacity after growing to hold `required`.
RECURSIVE GrownCapacity(_, _)
GrownCapacity(size, required) ==
  IF size >= required THEN size ELSE GrownCapacity(size * 2, required)

\* One iteration of the match-collection loop, lines 756-794.  matches holds
\* the entries below cur_match_pos; num_matches[k] = -1 is an unwritten entry.
CollectStep ==
  /\ pc = "collect"
  /\ MorePositions
  /\ LET required == cur_match_pos + MAX_NUM_MATCHES_H10
         grows == matches_size < required
         pos == arg.position + i
         max_distance == Min(pos, max_backward_limit)
     IN  \E fails \in (IF grows THEN BOOLEAN ELSE {FALSE}) :
           /\ m' = IF grows THEN Request(m, fails) ELSE m
           /\ matches_size' =
                IF grows
                THEN GrownCapacity(IF matches_size = 0 THEN required
                                   ELSE matches_size, required)
                ELSE matches_size
           /\ IF BROTLI_IS_OOM(m')
              THEN /\ pc' = "done"
                   /\ UNCHANGED <<num_matches, matches, cur_match_pos, i>>
              ELSE \E found \in {FindAllMatchesH10(arg.ringbuffer, pos,
                                       arg.num_bytes - i, max_distance)} :
                   \E n \in {Len(found)} :
                   \E long \in {n > 0 /\ found[n].length
                                            > kMaxZopfliLenQuality11} :
                   \E skip \in {IF long THEN found[n].length - 1 ELSE 0} :
                         /\ pc' = pc
                         /\ matches' = matches \o (IF long THEN <<found[n]>>
                                                   ELSE found)
                         /\ cur_match_pos' = cur_match_pos
                                             + (IF long THEN 1 ELSE n)
                         /\ num_matches' =
                              [k \in DOMAIN num_matches |->
                                IF k = i THEN (IF long THEN 1 ELSE n)
                                ELSE IF long /\ k > i /\ k <= i + skip THEN 0
                                ELSE num_matches[k]]
                         /\ i' = IF long THEN i + skip + 1 ELSE i + 1
  /\ UNCHANGED <<pushed, brotlirep, call, result>>
  /\ UNCHANGED <<arg, estimate, entry, dist_cache, last_insert_len, commands,
                 num_commands, num_literals, pass, nodes, queue, model, orig,
                 emit, copies, empty_reads>>

\* Line 802: if (BROTLI_IS_OOM(m)) return; left out.
AfterCostModelInit_Unchecked(mm) == "pass"

\* Line 802: if (BROTLI_IS_OOM(m)) return; else on to the two passes.
AfterCostModelInit(mm) == IF BROTLI_IS_OOM(mm) THEN "done" ELSE "pass"

\* Lines 795-802: capture the originals, then the node array and the cost
\* model's literal array; the second request is made only if the first held.
CollectFinish ==
  /\ pc = "collect"
  /\ ~MorePositions
  /\ orig' = [num_literals |-> num_literals,
              last_insert_len |-> last_insert_len,
              dist_cache |-> dist_cache, num_commands |-> num_commands]
  /\ \E failure \in {"none", "nodes", "model"} :
       /\ m' = IF failure = "nodes" THEN Request(m, TRUE)
               ELSE Request(Request(m, FALSE), failure = "model")
       /\ pc' = IF failure = "nodes" THEN "done" ELSE AfterCostModelInit(m')
  /\ pass' = 0
  /\ UNCHANGED <<pushed, brotlirep, call, result>>
  /\ UNCHANGED <<arg, estimate, entry, dist_cache, last_insert_len, commands,
                 num_commands, num_literals, i, nodes, queue, model,
                 num_matches, matches, cur_match_pos, matches_size, emit,
                 copies, empty_reads>>

\* The four outputs left as the previous pass made them.
RestoreOutputs_Skipped(current, original) == current

\* Lines 812-815: the four outputs are set back to the values captured at
\* lines 795-798.
RestoreOutputs(current, original) == original

\* Lines 804-816 of one pass and the start of ZopfliIterate, lines 584-590.
PassBegin ==
  /\ pc = "pass"
  /\ nodes' = StartNode(BrotliInitZopfliNodes(arg.num_bytes + 1))
  /\ model' = IF pass = 0
              THEN ZopfliCostModelSetFromLiteralCosts(
                     arg.num_bytes, arg.position, arg.ringbuffer, estimate)
              ELSE ZopfliCostModelSetFromCommands(
                     arg.num_bytes, arg.position, arg.ringbuffer, commands,
                     num_commands - orig.num_commands, orig.last_insert_len)
  /\ LET restored ==
           RestoreOutputs([num_literals |-> num_literals,
                           last_insert_len |-> last_insert_len,
                           dist_cache |-> dist_cache,
                           num_commands |-> num_commands], orig)
     IN  /\ num_commands' = restored.num_commands
         /\ num_literals' = restored.num_literals
         /\ last_insert_len' = restored.last_insert_len
         /\ dist_cache' = restored.dist_cache
  /\ queue' = InitStartPosQueue(NewStartPosQueue)
  /\ cur_match_pos' = 0
  /\ i' = 0
  /\ copies' = <<>>
  /\ pc' = "iter_loop"
  /\ UNCHANGED <<pushed, brotlirep, call, result>>
  /\ UNCHANGED <<arg, estimate, entry, commands, m, pass, num_matches, matches,
                 matches_size, orig, emit, empty_reads>>

\* One iteration of the loop of ZopfliIterate, lines 591-603.
IterateStep ==
  /\ pc = "iter_loop"
  /\ MorePositions
  /\ LET n == num_matches[i]
         ms == SubSeq(matches, cur_match_pos + 1, cur_match_pos + n)
         r == UpdateNodes(Context(i), dist_cache, ms, queue, nodes)
         long == n = 1 /\ matches[cur_match_pos + n].length
                            > MaxZopfliLenForQuality(arg.quality)
     IN  /\ nodes' = r.nodes
         /\ cur_match_pos' = cur_match_pos + n
         /\ queue' = IF long THEN InitStartPosQueue(r.queue) ELSE r.queue
         /\ i' = IF long THEN i + (matches[cur_match_pos + n].length - 1) + 1
                 ELSE i + 1
         /\ empty_reads' = empty_reads + (IF r.empty_read THEN 1 ELSE 0)
  /\ UNCHANGED <<pushed, brotlirep, call, result>>
  /\ UNCHANGED <<arg, estimate, entry, dist_cache, last_insert_len, commands,
                 num_commands, num_literals, m, pc, pass, model, num_matches,
                 matches, matches_size, orig, emit, copies>>

\* Line 604 and line 817: the back-trace, counted into *num_commands.
IterateFinish ==
  /\ pc = "iter_loop"
  /\ ~MorePositions
  /\ LET r == ComputeShortestPathFromNodes(arg.num_bytes, nodes)
     IN  /\ nodes' = r.nodes
         /\ num_commands' = num_commands + r.num_commands
         /\ emit' = EmitStart(r.nodes)
  /\ pc' = "emit"
  /\ UNCHANGED <<pushed, brotlirep, call, result>>
  /\ UNCHANGED <<arg, estimate, entry, dist_cache, last_insert_len, commands,
                 num_literals, m, i, pass, queue, model, num_matches, matches,
                 cur_match_pos, matches_size, orig, copies, empty_reads>>

Next ==
  \/ Enter
  \/ AllocNodesQ10
  \/ ShortestPathInit
  \/ ShortestPathStep
  \/ ShortestPathFinish
  \/ CreateCommandsStep
  \/ CreateCommandsFinish
  \/ AllocMatchArrays
  \/ CollectStep
  \/ CollectFinish
  \/ PassBegin
  \/ IterateStep
  \/ IterateFinish

Spec == Init /\ [][Next]_vars

\* ------------------------------------------------------------ properties
\* The pass has expanded its last position; the back-trace has not run yet.
PassEnded == pc \in {"zcsp_loop", "iter_loop"} /\ ~MorePositions

\* BrotliZopfliCreateCommands has returned (once at quality 10, after either
\* pass at quality 11).
EmitterReturned ==
  /\ ~m.is_oom
  /\ pc = "done" \/ (pc = "pass" /\ pass >= 1)

InputAt(a) == arg.ringbuffer[a % (ringbuffer_mask + 1)]

\* The distance a decoder takes for a command, from the distance code the
\* emitter wrote and the last four distances before the command.
DecodedDistance(c) ==
  IF c.dist_code < BROTLI_NUM_DISTANCE_SHORT_CODES
  THEN ShortCodeBackward(c.cache_before, c.dist_code)
  ELSE c.dist_code - (BROTLI_NUM_DISTANCE_SHORT_CODES - 1)

\* C1: every emitted non-dictionary copy (d, l) whose copy starts at q has
\* 1 <= d <= min(block_start + q, max_backward_limit), lies inside the block,
\* repeats the input (input[q + i] = input[q + i - d] for 0 <= i < l), and its
\* distance code resolves to d against the last four distances of that moment.
C1_CopiesReplayInput ==
  \A k \in 1 .. Len(copies) :
    LET c == copies[k]
        q == block_start + c.start
    IN  ~c.is_dictionary =>
          /\ 1 <= c.distance
          /\ c.distance <= Min(q, max_backward_limit)
          /\ c.start + c.copy_length <= arg.num_bytes
          /\ \A n \in 0 .. c.copy_length - 1 :
               InputAt(q + n) = InputAt(q + n - c.distance)
          /\ DecodedDistance(c) = c.distance

\* Two commands were emitted, the second one a window copy through a short
\* code other than "last distance".
C1_Witness ==
  /\ EmitterReturned
  /\ Len(copies) >= 2
  /\ ~copies[2].is_dictionary
  /\ copies[2].short_code >= 2
  /\ copies[2].copy_length >= 2

\* The node the back-trace will start from, and the nodes at which the
\* commands of the chosen path start (the predecessors along the chain).
ChosenEnd == LastFiniteNode(nodes, arg.num_bytes)

RECURSIVE CommandStarts(_)
CommandStarts(p) ==
  IF p = 0 THEN {}
  ELSE LET s == p - ZopfliNodeCommandLength(nodes[p])
       IN  {s} \cup CommandStarts(s)

LiteralCost(from, to) == ZopfliCostModelGetLiteralCosts(model, from, to)

\* C2 (as claimed): at the end of a pass the cost of the last finite node e
\* plus the literal cost of the bytes e .. N is at most the literal cost of
\* the whole block.
C2_ChosenCostAtMostLiterals ==
  PassEnded =>
    NodeCost(nodes[ChosenEnd]) + LiteralCost(ChosenEnd, arg.num_bytes)
      <= LiteralCost(0, arg.num_bytes)

\* C2 (amended): at the end of a pass every node at which a command of the
\* chosen path starts costs at most the literals of the block up to it; the
\* node at which the path ends is not bounded so.
C2_CommandStartsAtMostLiterals ==
  PassEnded =>
    \A s \in CommandStarts(ChosenEnd) :
      NodeCost(nodes[s]) <= LiteralCost(0, s)

\* The chosen path has at least two commands and its total cost exceeds the
\* pure-literal cost of the block.
C2_Witness ==
  /\ PassEnded
  /\ \E s \in CommandStarts(ChosenEnd) : s > 0
  /\ NodeCost(nodes[ChosenEnd]) + LiteralCost(ChosenEnd, arg.num_bytes)
       > LiteralCost(0, arg.num_bytes)

\* C3: when BrotliZopfliCreateCommands returns, the persistent distance cache
\* equals what ComputeDistanceCache reconstructs from the cache of entry at
\* the node where the chosen path ends.
C3_CacheFidelity ==
  EmitterReturned =>
    dist_cache = ComputeDistanceCache(block_start, emit.pos, max_backward_limit,
                                      entry.dist_cache, nodes)

\* The chosen path has a command that updates the cache and one that does
\* not (a dictionary reference or a reuse of the last distance).
C3_Witness ==
  /\ EmitterReturned
  /\ \E k \in 1 .. Len(copies) :
       ~copies[k].is_dictionary /\ copies[k].dist_code > 0
  /\ \E k \in 1 .. Len(copies) :
       copies[k].is_dictionary \/ copies[k].dist_code = 0

\* The commands the current call of BrotliZopfliCreateCommands has written.
Emitted == [k \in 1 .. emit.i |-> commands[k]]

RECURSIVE SumOfSeq(_)
SumOfSeq(q) == IF q = <<>> THEN 0 ELSE q[1] + SumOfSeq(Tail(q))

InsertLengths == [k \in 1 .. emit.i |-> Emitted[k].insert_len_]
CopyLengths == [k \in 1 .. emit.i |-> CommandCopyLen(Emitted[k])]

\* C4: when BrotliZopfliCreateCommands returns, the insert and copy lengths
\* of its commands plus last_insert_len add up to last_insert_len of entry
\* plus num_bytes; the entry value is added to the first command only and
\* last_insert_len is zero from then until the trailing bytes are added;
\* num_literals has grown by the sum of the insert lengths; with no command
\* last_insert_len has grown by num_bytes and num_literals is unchanged.
C4_ByteAccounting ==
  /\ pc = "emit" /\ emit.i >= 1 => last_insert_len = 0
  /\ EmitterReturned =>
       /\ SumOfSeq(InsertLengths) + SumOfSeq(CopyLengths) + last_insert_len
            = entry.last_insert_len + arg.num_bytes
       /\ num_literals = entry.num_literals + SumOfSeq(InsertLengths)
       /\ \A k \in 1 .. emit.i :
            Emitted[k].insert_len_
              = copies[k].node_insert_length
                + (IF k = 1 THEN entry.last_insert_len ELSE 0)
       /\ emit.i = 0 =>
            /\ last_insert_len = entry.last_insert_len + arg.num_bytes
            /\ num_literals = entry.num_literals

\* Two commands were emitted with literals pending on entry, literals
\* inserted before the second command, and trailing bytes left over.
C4_Witness ==
  /\ EmitterReturned
  /\ entry.last_insert_len > 0
  /\ emit.i >= 2
  /\ copies[2].node_insert_length > 0
  /\ last_insert_len > 0

\* The emitter wrote one more command in this step; its record is the last
\* entry of copies'.
CommandEmitted == pc = "emit" /\ emit'.i = emit.i + 1

\* C6: a command that is no dictionary reference (its distance is at most
\* min(block_start + copy start, max_backward_limit)) and has distance code
\* > 0 turns the cache into (distance, old[0], old[1], old[2]); every other
\* command leaves all four entries as they were.
C6_EmitterCacheRule ==
  [][CommandEmitted =>
       LET c == copies'[Len(copies')]
           in_window == c.distance
                          <= Min(block_start + c.start, max_backward_limit)
       IN  IF in_window /\ c.dist_code > 0
           THEN dist_cache' = <<c.distance, dist_cache[1], dist_cache[2],
                                dist_cache[3]>>
           ELSE dist_cache' = dist_cache]_vars

\* The emitter has written a dictionary reference and then a window copy
\* with a distance code above 0.
C6_Witness ==
  /\ pc = "emit"
  /\ emit.i >= 2
  /\ copies[1].is_dictionary
  /\ ~copies[2].is_dictionary
  /\ copies[2].dist_code > 0
  /\ dist_cache[1] = copies[2].distance

\* What ComputeDistanceCache reconstructs at block position p.
CacheAt(p) ==
  ComputeDistanceCache(block_start, p, max_backward_limit, entry.dist_cache,
                       nodes)

\* C7 (as claimed): no command whose node records a nonzero short_code
\* changes the distance cache, in the emitter or in the reconstruction of
\* ComputeDistanceCache.
C7_ShortCodesNeverChangeCache ==
  [][CommandEmitted =>
       LET c == copies'[Len(copies')]
           end == c.start + c.copy_length
           begin == c.start - c.node_insert_length
       IN  c.short_code # 0 =>
             /\ dist_cache' = dist_cache
             /\ CacheAt(end) = CacheAt(begin)]_vars

\* C7 (amended): a dictionary reference and a command with short_code 1
\* (distance code 0, the last distance) leave the cache as it was, in the
\* emitter and in the reconstruction of ComputeDistanceCache; every other
\* command, the ones with short_code 2 .. 16 included, makes it
\* (distance, old[0], old[1], old[2]) in both.
C7_OnlyLastDistanceAndDictionaryKeepCache ==
  [][CommandEmitted =>
       LET c == copies'[Len(copies')]
           end == c.start + c.copy_length
           begin == c.start - c.node_insert_length
           old == CacheAt(begin)
       IN  IF c.is_dictionary \/ c.short_code = 1
           THEN /\ dist_cache' = dist_cache
                /\ CacheAt(end) = old
           ELSE /\ dist_cache' = <<c.distance, dist_cache[1], dist_cache[2],
                                   dist_cache[3]>>
                /\ CacheAt(end) = <<c.distance, old[1], old[2], old[3]>>]_vars

\* The emitter has written a command with short_code 1 and a command with a
\* short_code of 2 or more.
C7_Witness ==
  /\ pc = "emit"
  /\ \E k \in 1 .. Len(copies) : copies[k].short_code = 1
  /\ \E k \in 1 .. Len(copies) :
       /\ copies[k].short_code >= 2
       /\ copies[k].cache_before[1] # copies[k].distance

Finite(p) == NodeCost(nodes[p]) < kInfinity

\* The command recorded in node p is one a decoder can execute: an insert
\* run from a finite node begin, then a copy of at least two bytes that is a
\* dictionary reference or repeats the input at its distance.
CommandValid(p) ==
  LET clen == ZopfliNodeCopyLength(nodes[p])
      dist == ZopfliNodeCopyDistance(nodes[p])
      begin == p - ZopfliNodeCommandLength(nodes[p])
      q == block_start + p - clen
  IN  /\ clen >= 2
      /\ begin >= 0
      /\ Finite(begin)
      /\ dist >= 1
      /\ dist <= Min(q, max_backward_limit) =>
           \A n \in 0 .. clen - 1 : InputAt(q + n) = InputAt(q + n - dist)

\* The back-pointers lead from p to node 0 through valid commands.
RECURSIVE ChainValid(_)
ChainValid(p) ==
  \/ p = 0
  \/ /\ CommandValid(p)
     /\ ChainValid(p - ZopfliNodeCommandLength(nodes[p]))

\* C8 (as claimed): at the end of a pass every position of 1 .. N has a finite
\* cost, the literal-only path reaching each of them; in particular the node
\* at N is finite.
C8_EveryNodeFinite ==
  PassEnded => \A p \in 1 .. arg.num_bytes : Finite(p)

\* C8 (amended): at the end of a pass node 0 has cost 0, and every node of
\* 1 .. N with a finite cost is the end of a chain of valid commands from
\* position 0 (the converse does not hold: a position reached by literals
\* alone stays infinite, the node at N included).
C8_FiniteNodesEndCommandChains ==
  PassEnded =>
    /\ NodeCost(nodes[0]) = 0
    /\ \A p \in 1 .. arg.num_bytes : Finite(p) => ChainValid(p)

\* The node at N is infinite, and some finite node ends a chain of two
\* commands that has literals inserted before one of them.
C8_Witness ==
  /\ PassEnded
  /\ ~Finite(arg.num_bytes)
  /\ \E p \in 1 .. arg.num_bytes :
       /\ Finite(p)
       /\ p - ZopfliNodeCommandLength(nodes[p]) > 0
       /\ nodes[p].insert_length > 0

\* The nodes of the back-pointer chain from p down to (not including) 0.
RECURSIVE ChainNodes(_)
ChainNodes(p) ==
  IF p = 0 THEN {}
  ELSE {p} \cup ChainNodes(p - ZopfliNodeCommandLength(nodes[p]))

\* C9: at the end of a pass, before the back-trace replaces costs by next
\* offsets, every node p of the chain from the last finite node down to 0
\* costs at least as much as its predecessor p - copy_length - insert_length.
C9_MonotoneCostFrontier ==
  PassEnded =>
    \A p \in ChainNodes(ChosenEnd) :
      NodeCost(nodes[p - ZopfliNodeCommandLength(nodes[p])])
        <= NodeCost(nodes[p])

\* The chain from the last finite node has three commands or more.
C9_Witness ==
  /\ PassEnded
  /\ Cardinality(ChainNodes(ChosenEnd)) >= 3

\* C10: once an allocation has failed the call has returned, no command has
\* been written, and num_commands, num_literals, last_insert_len and the
\* distance cache have their values of entry.
C10_OomLeavesOutputsUntouched ==
  BROTLI_IS_OOM(m) =>
    /\ pc = "done"
    /\ commands = <<>>
    /\ num_commands = entry.num_commands
    /\ num_literals = entry.num_literals
    /\ last_insert_len = entry.last_insert_len
    /\ dist_cache = entry.dist_cache

\* The last allocation of the two-pass path (the cost model's literal array)
\* failed after matches had been collected, with literals pending on entry.
C10_Witness ==
  /\ BROTLI_IS_OOM(m)
  /\ pc = "done"
  /\ arg.quality = 11
  /\ cur_match_pos > 0
  /\ orig.last_insert_len > 0
  /\ m.requests >= 5

\* C11: once an allocation has failed, no further allocation is requested
\* before the call returns.
C11_NoRequestAfterFailure == m.after_oom = 0

\* The call has returned from the two-pass path without allocation failure.
TwoPassReturned == pc = "done" /\ arg.quality = 11 /\ ~BROTLI_IS_OOM(m)

\* A pass of the two-pass path is about to expand its first position.
PassStarts == pc = "iter_loop" /\ i = 0

\* The persistent cache after the first k commands of the current pass, from
\* the cache of entry.
RECURSIVE CacheAfter(_)
CacheAfter(k) ==
  IF k = 0 THEN entry.dist_cache
  ELSE LET c == copies[k]
           old == CacheAfter(k - 1)
       IN  IF ~c.is_dictionary /\ c.dist_code > 0
           THEN <<c.distance, old[1], old[2], old[3]>>
           ELSE old

\* C12: at quality 11 exactly two passes run; each starts from num_commands,
\* num_literals, last_insert_len and the distance cache of entry; on return
\* the outputs and the command list are those of the second pass applied to
\* the values of entry, nothing of the first pass being added.
C12_SecondPassFromEntryState ==
  /\ PassStarts =>
       /\ pass \in {0, 1}
       /\ num_commands = entry.num_commands
       /\ num_literals = entry.num_literals
       /\ last_insert_len = entry.last_insert_len
       /\ dist_cache = entry.dist_cache
  /\ TwoPassReturned =>
       /\ pass = 2
       /\ Len(copies) = emit.i
       /\ num_commands = entry.num_commands + emit.i
       /\ num_literals = entry.num_literals + SumOfSeq(InsertLengths)
       /\ dist_cache = CacheAfter(emit.i)
       /\ last_insert_len = IF emit.i = 0
                            THEN entry.last_insert_len + arg.num_bytes
                            ELSE arg.num_bytes - emit.pos
       /\ \A k \in 1 .. emit.i :
            /\ commands[k].insert_len_
                 = copies[k].node_insert_length
                   + (IF k = 1 THEN entry.last_insert_len ELSE 0)
            /\ commands[k].copy_len_ = copies[k].copy_length
            /\ commands[k].dist_code_ = copies[k].dist_code
            /\ copies[k].cache_before = CacheAfter(k - 1)

\* The two-pass path has returned; its first pass wrote more commands than
\* its second, which changed the cache and had literals pending on entry.
C12_Witness ==
  /\ TwoPassReturned
  /\ emit.i >= 1
  /\ Len(commands) > emit.i
  /\ entry.last_insert_len > 0
  /\ dist_cache # entry.dist_cache

\* A pass is expanding positions: the union u of every node holds a cost.
InPass == pc \in {"zcsp_loop", "iter_loop"}

\* The position a backward walk steps to from p.
Predecessor(p) ==
  p - ZopfliNodeCopyLength(nodes[p]) - nodes[p].insert_length

\* The walk from p steps to strictly smaller positions, none below 0, all of
\* finite cost, and arrives at 0.
RECURSIVE WalkReachesZero(_)
WalkReachesZero(p) ==
  \/ p = 0
  \/ /\ Predecessor(p) < p
     /\ Predecessor(p) >= 0
     /\ Finite(Predecessor(p))
     /\ WalkReachesZero(Predecessor(p))

\* C14: throughout a pass every position p of 1 .. N with a finite cost has
\* p >= copy_length(p) + insert_length(p) >= 1 and a predecessor that is 0 or
\* a finite node, so that the walks of ComputeDistanceCache and of the
\* back-trace go strictly down, never below 0, and end at 0; the back-trace
\* has written the next offset of node 0 when it returns.
C14_WalksGoDownToZero ==
  /\ InPass =>
       \A p \in 1 .. arg.num_bytes :
         Finite(p) =>
           LET len == ZopfliNodeCopyLength(nodes[p]) + nodes[p].insert_length
           IN  /\ p >= len
               /\ len >= 1
               /\ p - len = 0 \/ Finite(p - len)
               /\ WalkReachesZero(p)
  /\ pc = "emit" => nodes[0].u[1] = "next"

\* In the middle of a pass a finite node is three steps away from 0 and one
\* of the steps crosses inserted literals.
C14_Witness ==
  /\ InPass
  /\ MorePositions
  /\ \E p \in 1 .. arg.num_bytes :
       /\ Finite(p)
       /\ Predecessor(p) > 0
       /\ Predecessor(Predecessor(p)) > 0
       /\ nodes[Predecessor(p)].insert_length > 0

\* The positions the entries of a queue refer to.
QueuePositions(self) ==
  {StartPosQueueAt(self, k).pos : k \in 0 .. StartPosQueueSize(self) - 1}

\* C15: the expansion of position p changes a node q only if p + 2 <= q <= N
\* and only to a strictly lower cost; no cost grows; the nodes at indices up
\* to p, those the queue entries refer to among them, stay as they are.
C15_RelaxationFrame ==
  [][InPass /\ MorePositions =>
       /\ \A q \in 0 .. arg.num_bytes :
            /\ NodeCost(nodes'[q]) <= NodeCost(nodes[q])
            /\ nodes'[q] # nodes[q] =>
                 /\ i + 2 <= q
                 /\ NodeCost(nodes'[q]) < NodeCost(nodes[q])
       /\ \A q \in 0 .. i : nodes'[q] = nodes[q]
       /\ \A q \in QueuePositions(queue) \cup QueuePositions(queue') :
            q <= i /\ nodes'[q] = nodes[q]]_vars

\* In the middle of a pass the queue holds two start positions or more, and
\* a node ahead of the position to expand next has been written from a start
\* position other than 0.
C15_Witness ==
  /\ InPass
  /\ MorePositions
  /\ StartPosQueueSize(queue) >= 2
  /\ \E q \in i + 1 .. arg.num_bytes : Finite(q) /\ Predecessor(q) > 0

\* The matches the collection loop keeps for block position k: all that
\* FindAllMatchesH10 finds there, or the longest one alone when it is longer
\* than kMaxZopfliLenQuality11.
CollectedAt(k) ==
  LET found == FindAllMatchesH10(arg.ringbuffer, arg.position + k,
                                 arg.num_bytes - k,
                                 Min(arg.position + k, max_backward_limit))
  IN  IF Len(found) > 0 /\ found[Len(found)].length > kMaxZopfliLenQuality11
      THEN <<found[Len(found)]>> ELSE found

\* The collection loop collapses position k to one long match.
CollapsedAt(k) ==
  Len(CollectedAt(k)) = 1 /\ CollectedAt(k)[1].length > kMaxZopfliLenQuality11

\* C16: when the collection loop collapses position i to one match of length
\* L > 325 it records num_matches[i] = 1 and num_matches[i+1 .. i+L-1] = 0
\* and resumes at i + L; ZopfliIterate expands position i with exactly that
\* match, re-initialises the queue and resumes at i + L; and at every position
\* ZopfliIterate expands, the num_matches[i] entries from cur_match_pos on
\* are the matches collected for position i.
C16_LongMatchSkipInSync ==
  [][/\ pc = "collect" /\ MorePositions /\ pc' = "collect" /\ CollapsedAt(i) =>
          LET L == CollectedAt(i)[1].length
          IN  /\ num_matches'[i] = 1
              /\ \A k \in i + 1 .. i + L - 1 : num_matches'[k] = 0
              /\ matches'[cur_match_pos + 1] = CollectedAt(i)[1]
              /\ cur_match_pos' = cur_match_pos + 1
              /\ i' = i + L
     /\ pc = "iter_loop" /\ MorePositions =>
          /\ num_matches[i] = Len(CollectedAt(i))
          /\ SubSeq(matches, cur_match_pos + 1, cur_match_pos + num_matches[i])
               = CollectedAt(i)
          /\ cur_match_pos' = cur_match_pos + num_matches[i]
          /\ nodes' = UpdateNodes(Context(i), dist_cache, CollectedAt(i),
                                  queue, nodes).nodes
          /\ IF CollapsedAt(i)
             THEN /\ i' = i + CollectedAt(i)[1].length
                  /\ StartPosQueueSize(queue') = 0
             ELSE i' = i + 1]_vars

\* ZopfliIterate has skipped over a long match and is about to expand the
\* position it landed on, with matches of earlier positions behind it.
C16_Witness ==
  /\ pc = "iter_loop"
  /\ MorePositions
  /\ i > kMaxZopfliLenQuality11
  /\ num_matches[i - 1] = 0
  /\ cur_match_pos >= 1
  /\ matches[cur_match_pos].length > kMaxZopfliLenQuality11
  /\ StartPosQueueSize(queue) = 0

MaxCodeDistance == 18

\* kLimits of lines 238-241.
kLimits == <<0, 0, 0, 0, 6, 6, 11, 11, 11, 11, 11, 11, 12, 12, 12, 12>>

\* Line 237: (size_t)(dist_cache[idx] + kDistanceCacheOffset[k]).  A negative
\* int converts to a value of 2^63 or more, which no distance equals.
ShortCodeCandidate(cache, k) ==
  cache[kDistanceCacheIndex[k + 1] + 1] + kDistanceCacheOffset[k + 1]

\* Lines 234-245: the first k of 4 .. 15 the loop returns, or 16 when the loop
\* ends without returning.
FirstPerturbedCode(distance, cache) ==
  LET hits == {k \in 4 .. BROTLI_NUM_DISTANCE_SHORT_CODES - 1 :
                 /\ ShortCodeCandidate(cache, k) >= 0
                 /\ distance = ShortCodeCandidate(cache, k)
                 /\ distance >= kLimits[k + 1]}
  IN  IF hits = {} THEN BROTLI_NUM_DISTANCE_SHORT_CODES
      ELSE CHOOSE k \in hits : \A h \in hits : k <= h

\* Lines 221-250.  The function reads the global brotlirep.
ComputeDistanceCode(distance, max_distance, quality, cache) ==
  IF brotlirep # 0 /\ distance <= max_distance
  THEN IF distance = cache[1] THEN 0
       ELSE IF distance = cache[2] THEN 1
       ELSE IF distance = cache[3] THEN 2
       ELSE IF distance = cache[4] THEN 3
       ELSE IF /\ quality > 3
               /\ distance >= 6
               /\ FirstPerturbedCode(distance, cache)
                    < BROTLI_NUM_DISTANCE_SHORT_CODES
            THEN FirstPerturbedCode(distance, cache)
            ELSE distance + 15
  ELSE distance + 15

\* The caches a call is made with: the initial one, one with repeated
\* entries, one whose perturbations coincide with each other and with its
\* slots, and one with small entries.
CodeCaches ==
  {kInitialDistanceCache, <<2, 1, 2, 1>>, <<10, 9, 10, 13>>, <<8, 3, 14, 14>>}

\* One call of ComputeDistanceCode by a hasher of quality 2 .. 9; the flag has
\* whatever value the program that links this file gave it.
CodeInit ==
  /\ arg = [num_bytes |-> 0, position |-> 0, ringbuffer |-> <<>>,
            quality |-> 9, lgwin |-> 10]
  /\ estimate = [b \in Alphabet |-> 8]
  /\ entry = [dist_cache |-> kInitialDistanceCache, last_insert_len |-> 0,
              num_commands |-> 0, num_literals |-> 0]
  /\ dist_cache = kInitialDistanceCache
  /\ last_insert_len = 0
  /\ commands = <<>>
  /\ num_commands = 0
  /\ num_literals = 0
  /\ m = [is_oom |-> FALSE, requests |-> 0, after_oom |-> 0]
  /\ pc = "code"
  /\ i = 0
  /\ pass = 0
  /\ nodes = <<>>
  /\ queue = NewStartPosQueue
  /\ model = NoModel
  /\ num_matches = <<>>
  /\ matches = <<>>
  /\ cur_match_pos = 0
  /\ matches_size = 0
  /\ orig = NoOrig
  /\ emit = NoEmit
  /\ copies = <<>>
  /\ empty_reads = 0
  /\ pushed = <<>>
  /\ brotlirep \in {0, 1}
  /\ \E distance \in 1 .. MaxCodeDistance,
        max_distance \in {5, 11, MaxCodeDistance},
        quality \in {3, 4, 9},
        cache \in CodeCaches :
       call = [distance |-> distance, max_distance |-> max_distance,
               quality |-> quality, dist_cache |-> cache]
  /\ result = NoCall

CodeCall ==
  /\ pc = "code"
  /\ result' = ComputeDistanceCode(call.distance, call.max_distance,
                                   call.quality, call.dist_cache)
  /\ pc' = "coded"
  /\ UNCHANGED <<arg, estimate, entry, dist_cache, last_insert_len, commands,
                 num_commands, num_literals, m, i, pass, nodes, queue, model,
                 num_matches, matches, cur_match_pos, matches_size, orig, emit,
                 copies, empty_reads, pushed, brotlirep, call>>

CodeNext == CodeCall

SpecCode == CodeInit /\ [][CodeNext]_vars

\* The cache slots 0 .. 3 that hold the distance of the call, and the codes
\* 4 .. 15 whose perturbed cache value is the distance and meets its bound.
SlotsOf(c) == {k \in 0 .. 3 : c.dist_cache[k + 1] = c.distance}
PerturbedOf(c) ==
  {k \in 4 .. 15 : /\ c.dist_cache[kDistanceCacheIndex[k + 1] + 1]
                        + kDistanceCacheOffset[k + 1] = c.distance
                   /\ c.distance >= kLimits[k + 1]}
Least(S) == CHOOSE k \in S : \A h \in S : k <= h

\* What the claim gives for a call within max_distance, whatever the flag.
ShortCodeRule(c, r) ==
  c.distance <= c.max_distance =>
    /\ SlotsOf(c) # {} => r = Least(SlotsOf(c))
    /\ /\ SlotsOf(c) = {}
       /\ c.quality > 3
       /\ c.distance >= 6
       /\ PerturbedOf(c) # {}
       => r = Least(PerturbedOf(c))

\* C13: for a distance within max_distance that equals a cache slot 0 .. 3
\* ComputeDistanceCode returns the smallest such slot, and otherwise, for
\* quality > 3 and distance >= 6, the first code 4 .. 15 whose perturbed cache
\* value is the distance and meets its lower bound; the global flag has no
\* part in the result.
C13_ShortCodesUnconditional ==
  pc = "coded" => ShortCodeRule(call, result)

\* The same with the flag set: the rule holds, and beyond max_distance or
\* without a matching code the result is distance + 15.
C13_ShortCodesWhenFlagSet ==
  pc = "coded" /\ brotlirep # 0 =>
    /\ ShortCodeRule(call, result)
    /\ \/ call.distance > call.max_distance
       \/ /\ SlotsOf(call) = {}
          /\ ~(call.quality > 3 /\ call.distance >= 6) \/ PerturbedOf(call) = {}
       => result = call.distance + 15

\* With the flag clear every call returns distance + 15.
C13_NoShortCodeWhenFlagClear ==
  pc = "coded" /\ brotlirep = 0 => result = call.distance + 15

\* ------------------------------------------------- UpdateZopfliNode alone
\* Copy lengths, modifiers len + 9 - len_code and distances of one call of
\* UpdateZopfliNode, with the largest values the fields hold.
NodeLengths == {2, 3, 150, 326, 16777215}
NodeModifiers == {0, 1, 9, 11, 255}
NodeDistances == {1, 2, 17, 33554431}
NodeShortCodes == 0 .. BROTLI_NUM_DISTANCE_SHORT_CODES

\* One call of UpdateZopfliNode on a stub node; the other variables rest.
NodeInit ==
  /\ arg = [num_bytes |-> 0, position |-> 0, ringbuffer |-> <<>>,
            quality |-> 11, lgwin |-> 10]
  /\ estimate = [b \in Alphabet |-> 8]
  /\ entry = [dist_cache |-> kInitialDistanceCache, last_insert_len |-> 0,
              num_commands |-> 0, num_literals |-> 0]
  /\ dist_cache = kInitialDistanceCache
  /\ last_insert_len = 0
  /\ commands = <<>>
  /\ num_commands = 0
  /\ num_literals = 0
  /\ m = [is_oom |-> FALSE, requests |-> 0, after_oom |-> 0]
  /\ pc = "pack"
  /\ i = 0
  /\ pass = 0
  /\ nodes = <<>>
  /\ queue = NewStartPosQueue
  /\ model = NoModel
  /\ num_matches = <<>>
  /\ matches = <<>>
  /\ cur_match_pos = 0
  /\ matches_size = 0
  /\ orig = NoOrig
  /\ emit = NoEmit
  /\ copies = <<>>
  /\ empty_reads = 0
  /\ pushed = <<>>
  /\ brotlirep = 1
  /\ \E len \in NodeLengths, modifier \in NodeModifiers,
        dist \in NodeDistances, short_code \in NodeShortCodes,
        start_pos \in 0 .. 1 :
       call = [pos |-> 1, start_pos |-> start_pos, len |-> len,
               len_code |-> len + 9 - modifier, dist |-> dist,
               short_code |-> short_code]
  /\ result = NoCall

\* next = &nodes[pos + len] after the call; only that node is kept.
NodeCall ==
  /\ pc = "pack"
  /\ LET at == call.pos + call.len
     IN  result' = UpdateZopfliNode([n \in {at} |-> StubNode], call.pos,
                                    call.start_pos, call.len, call.len_code,
                                    call.dist, call.short_code, 0)[at]
  /\ pc' = "packed"
  /\ UNCHANGED <<arg, estimate, entry, dist_cache, last_insert_len, commands,
                 num_commands, num_literals, m, i, pass, nodes, queue, model,
                 num_matches, matches, cur_match_pos, matches_size, orig, emit,
                 copies, empty_reads, pushed, brotlirep, call>>

NodeNext == NodeCall

SpecNode == NodeInit /\ [][NodeNext]_vars

\* The arguments of the call are in the ranges the packed fields hold.
InPackedRange(c) ==
  /\ c.len < 16777216
  /\ c.dist < 33554432
  /\ 0 <= c.len + 9 - c.len_code /\ c.len + 9 - c.len_code <= 255
  /\ c.short_code \in 0 .. 16

\* C18: after UpdateZopfliNode(len, len_code, dist, short_code) with
\* len < 2^24, dist < 2^25, 0 <= len + 9 - len_code <= 255 and short_code in
\* 0..16, ZopfliNodeCopyLength returns len, ZopfliNodeLengthCode len_code,
\* ZopfliNodeCopyDistance dist, and ZopfliNodeDistanceCode dist + 15 when
\* short_code = 0 and short_code - 1 otherwise.
C18_BitPackingRoundTrip ==
  pc = "packed" /\ InPackedRange(call) =>
    /\ ZopfliNodeCopyLength(result) = call.len
    /\ ZopfliNodeLengthCode(result) = call.len_code
    /\ ZopfliNodeCopyDistance(result) = call.dist
    /\ ZopfliNodeDistanceCode(result) =
         IF call.short_code = 0 THEN call.dist + 15 ELSE call.short_code - 1

\* A packed node whose four fields all take their largest values.
C18_Witness ==
  /\ pc = "packed"
  /\ InPackedRange(call)
  /\ call.len = 16777215
  /\ call.len + 9 - call.len_code = 255
  /\ call.dist = 33554431
  /\ call.short_code = 16
  /\ result.length = [hi |-> 255, lo |-> 16777215]
  /\ result.distance = [hi |-> 16, lo |-> 33554431]

\* ------------------------------------------ the start-position queue alone
\* Any sequence of pushes on one freshly initialised StartPosQueue; the
\* other variables rest.  Positions are pushed in increasing order and cost
\* differences are at most 0, as UpdateNodes pushes them.
QueueInit ==
  /\ arg = [num_bytes |-> 0, position |-> 0, ringbuffer |-> <<>>,
            quality |-> 11, lgwin |-> 10]
  /\ estimate = [b \in Alphabet |-> 8]
  /\ entry = [dist_cache |-> kInitialDistanceCache, last_insert_len |-> 0,
              num_commands |-> 0, num_literals |-> 0]
  /\ dist_cache = kInitialDistanceCache
  /\ last_insert_len = 0
  /\ commands = <<>>
  /\ num_commands = 0
  /\ num_literals = 0
  /\ m = [is_oom |-> FALSE, requests |-> 0, after_oom |-> 0]
  /\ pc = "queue"
  /\ i = 0
  /\ pass = 0
  /\ nodes = <<>>
  /\ queue = InitStartPosQueue(NewStartPosQueue)
  /\ model = NoModel
  /\ num_matches = <<>>
  /\ matches = <<>>
  /\ cur_match_pos = 0
  /\ matches_size = 0
  /\ orig = NoOrig
  /\ emit = NoEmit
  /\ copies = <<>>
  /\ empty_reads = 0
  /\ pushed = <<>>
  /\ brotlirep = 1
  /\ call = NoCall
  /\ result = NoCall

QueueRest ==
  UNCHANGED <<arg, estimate, entry, dist_cache, last_insert_len, commands,
              num_commands, num_literals, m, pc, i, pass, nodes, model,
              num_matches, matches, cur_match_pos, matches_size, orig, emit,
              copies, empty_reads, brotlirep, call, result>>

QueuePush ==
  /\ pc = "queue"
  /\ Len(pushed) < MaxPushes
  /\ \E costdiff \in (0 - MaxSaving) .. 0 :
       LET posdata == [pos |-> Len(pushed), costdiff |-> costdiff,
                       distance_cache |-> kInitialDistanceCache]
       IN  /\ queue' = StartPosQueuePush(queue, posdata)
           /\ pushed' = Append(pushed, posdata)
  /\ QueueRest

QueueNext == QueuePush

SpecQueue == QueueInit /\ [][QueueNext]_vars

\* The entries the queue holds, cheapest first: at(0), ..., at(size - 1).
QueueEntries(self) ==
  [k \in 1 .. StartPosQueueSize(self) |-> StartPosQueueAt(self, k - 1)]

RECURSIVE InsertSorted(_, _)
InsertSorted(s, x) ==
  IF s = <<>> THEN <<x>>
  ELSE IF x <= s[1] THEN <<x>> \o s
  ELSE <<s[1]>> \o InsertSorted(Tail(s), x)

RECURSIVE SortedCostDiffs(_)
SortedCostDiffs(entries) ==
  IF entries = <<>> THEN <<>>
  ELSE InsertSorted(SortedCostDiffs(Tail(entries)), entries[1].costdiff)

CostDiffsOf(entries) == [k \in 1 .. Len(entries) |-> entries[k].costdiff]

\* C5 (as claimed): after any sequence of pushes the queue holds min(pushes, 8)
\* entries, in ascending order of cost difference, and they are the 8 entries
\* with the smallest cost difference of all the entries pushed.
C5_QueueKeepsEightSmallest ==
  pc = "queue" =>
    LET held == QueueEntries(queue)
        all == SortedCostDiffs(pushed)
    IN  /\ StartPosQueueSize(queue) = Min(Len(pushed), 8)
        /\ \A k \in 1 .. Len(held) - 1 : held[k].costdiff <= held[k + 1].costdiff
        /\ CostDiffsOf(held) = SubSeq(all, 1, Min(Len(all), 8))

\* C5 (the part the code keeps): the size and the ascending order.
C5_QueueSizedAndSorted ==
  pc = "queue" =>
    LET held == QueueEntries(queue)
    IN  /\ StartPosQueueSize(queue) = Min(Len(pushed), 8)
        /\ \A k \in 1 .. Len(held) - 1 : held[k].costdiff <= held[k + 1].costdiff
        /\ \A k \in 1 .. Len(held) : held[k] \in {pushed[n] : n \in 1 .. Len(pushed)}

=============================================================================
